---- MODULE Spec2Model ----
(***************************************************************************)
(* The reconciliation engine of server.js: the periodic sweep             *)
(* (periodicSync), the single-conversation refresh (updateChatCache,      *)
(* saveChatMessages), the webhook handler and the POST /sync trigger,     *)
(* together with the remote platform they talk to.                        *)
(*                                                                         *)
(* Every action is one run of the event loop: the code between two awaits. *)
(* A remote call is issued by the action that reaches the await and is     *)
(* answered by a later action. Wall-clock values (lastSync's date,         *)
(* lastDuration, cached_at, webhookSeen[..].at) are left out: no branch of *)
(* the code reads them. Message ids are the naturals 1, 2, ...; 0 stands   *)
(* for the empty id '' that the code substitutes for a missing one.        *)
(* Conversation ids of the server runs hold no '/', so the cache is keyed  *)
(* by the id; safeName and the written files are modelled on their own     *)
(* (ProbeSpec), the pagination bound against a long listing (PagingSpec),  *)
(* progress under fairness of answers and continuations (FairSpec).        *)
(***************************************************************************)
EXTENDS Naturals, Sequences, FiniteSets, Bags, TLC

\* ------------------------------------------------------------------ bounds

Convs == {"c1", "c2"}           \* the conversation ids the remote may hold
MaxMsg == 2                     \* messages a conversation may receive
PageSize == 1                   \* listing page size (limit=100 in the code), scaled
MaxPages == 11                  \* offsets 0, 100, ..., 1000: the loop bound of periodicSync
MsgLimit == 50                  \* limit=50 of the messages request
MaxSlots == 2                   \* executions of periodicSync that may exist at once
MaxTasks == 1                   \* webhook-triggered refreshes in flight
MaxImmediates == 1              \* setImmediate callbacks queued by POST /sync
MaxLen == 3                     \* characters of a conversation id given to safeName
MaxBatch == 3                   \* messages of a list given to saveChatMessages
MaxCreated == 2                 \* `created` values of those messages (0: none)

Slots == 1..MaxSlots

VARIABLES
  remote,        \* the platform's conversation list, most recently active first
  chatIndex,     \* let chatIndex: conversation id -> summary
  cache,         \* CHATS_DIR/<id>.json: conversation id -> messages (<<>>: no file)
  webhookSeen,   \* let webhookSeen: conversation id -> last message id seen by webhook
  syncState,     \* let syncState
  sweep,         \* the locals of each execution of periodicSync
  tasks,         \* bag of updateChatCache calls started by the webhook handler
  hook,          \* the webhook request being handled
  immediates,    \* number of queued setImmediate(() => periodicSync())
  startupPending,\* the setTimeout(periodicSync, 3000) has not fired yet
  lastCall,      \* the last invocation of periodicSync and what it returned
  last,          \* the sweep that finished last: its listing and its refresh calls
  scn,           \* what the environment does in this run (fixed at Init)
  tokenOk,       \* getToken has a valid cached token or is granted a fresh one
  probe          \* a cache function applied on its own (none while the server runs)

vars == <<remote, chatIndex, cache, webhookSeen, syncState, sweep, tasks, hook,
          immediates, startupPending, lastCall, last, scn, tokenOk, probe>>

\* ------------------------------------------------------------------ helpers

Min(a, b) == IF a < b THEN a ELSE b

Put(f, k, v) == [x \in (DOMAIN f) \cup {k} |-> IF x = k THEN v ELSE f[x]]

EmptyMap == [x \in {} |-> 0]

Range(s) == {s[k] : k \in DOMAIN s}

\* ------------------------------------------------------------------ remote platform

\* A conversation of the listing: chat.id and (chat.last_message || {}).id || ''
Chat(c, v) == [id |-> c, ver |-> v]

RemoteIds == {ch.id : ch \in Range(remote)}

RemoteVer(c) == (CHOOSE ch \in Range(remote) : ch.id = c).ver

Without(s, c) == SelectSeq(s, LAMBDA ch : ch.id # c)

\* The ids of the conversations of a listing.
Ids(chats) == {ch.id : ch \in Range(chats)}

\* The remote's answer to GET .../chats/<c>/messages/?limit=50: newest first.
MessagesOf(v) == [k \in 1..Min(v, MsgLimit) |-> v - k + 1]

\* getToken: the cached token or the one the token endpoint grants; a non-200
\* answer of the token endpoint makes it throw.
getToken == IF tokenOk THEN "token" ELSE "throw"

\* avitoApi without its catch: the outcomes of the request come back whether
\* or not a token was obtained.
avitoApi_TokenUnchecked(answers) == answers

\* avitoApi: `await getToken()` is inside the try, so its throw ends in the
\* catch and null is returned; with a token, whatever the request yields.
avitoApi(answers) ==
  IF getToken = "throw" THEN {r \in answers : r.kind = "null"} ELSE answers

\* What the messages request may yield once a token is held: null (transport
\* or JSON error), an object without a messages field, or the message batch.
MessageAnswers(c) ==
  {[kind |-> "null", messages |-> <<>>], [kind |-> "nomessages", messages |-> <<>>]}
  \cup (IF c \in RemoteIds
        THEN {[kind |-> "ok", messages |-> MessagesOf(RemoteVer(c))]}
        ELSE {})

\* What the listing request at an offset may yield once a token is held:
\* null (transport or JSON error), an object without chats, a chats that is no
\* list, the page, or the page with an entry that is no conversation object.
PageOf(offset) == SubSeq(remote, offset + 1, Min(offset + PageSize, Len(remote)))

\* An entry of chats that is not an object (null).
BadEntry == Chat("null", 0)

\* The page with its first entry replaced by null.
BadPage(offset) == [PageOf(offset) EXCEPT ![1] = BadEntry]

ListAnswers(offset) ==
  {[kind |-> "null", chats |-> <<>>], [kind |-> "nochats", chats |-> <<>>],
   [kind |-> "notalist", chats |-> <<>>], [kind |-> "ok", chats |-> PageOf(offset)]}
  \cup (IF PageOf(offset) = <<>> THEN {}
        ELSE {[kind |-> "badentry", chats |-> BadPage(offset)]})

Pending == [kind |-> "pending", messages |-> <<>>]

\* ------------------------------------------------------------------ chat cache

\* updateChatCache's test `!data || !data.messages`: an empty array is truthy.
UpdateOk(r) == r.kind = "ok"

\* saveChatMessages: writes <id>.json unless the list is missing or empty.
saveChatMessages(files, chatId, messages) ==
  IF messages = <<>> THEN files ELSE [files EXCEPT ![chatId] = messages]

\* The cache after updateChatCache(chatId) has handled the answer r.
CacheAfter(files, chatId, r) ==
  IF UpdateOk(r) THEN saveChatMessages(files, chatId, r.messages) ELSE files

\* A conversation id as its characters. '/' is what safeName rewrites; '%',
\* '2' and 'F' are what it writes.
Alphabet == {"/", "%", "2", "F"}

IdStrings == UNION {[1..n -> Alphabet] : n \in 1..MaxLen}

\* safeName: chatId.replace(/\//g, '%2F'). Every '/' becomes the three
\* characters '%', '2', 'F'; every other character, '%' included, is kept.
RECURSIVE safeName(_)
safeName(chatId) ==
  IF chatId = <<>> THEN <<>>
  ELSE (IF Head(chatId) = "/" THEN <<"%", "2", "F">> ELSE <<Head(chatId)>>)
       \o safeName(Tail(chatId))

\* A message list as the `created` values of its messages, in list order.
MessageLists == UNION {[1..n -> 0..MaxCreated] : n \in 0..MaxBatch}

\* JSON.stringify of a message list: its tokens.
Punct(ch) == [t |-> "punct", v |-> 0, ch |-> ch]

RECURSIVE JsonElements(_)
JsonElements(messages) ==
  IF messages = <<>> THEN <<>>
  ELSE IF Len(messages) = 1 THEN <<[t |-> "value", v |-> Head(messages), ch |-> ""]>>
  ELSE <<[t |-> "value", v |-> Head(messages), ch |-> ""], Punct(",")>>
       \o JsonElements(Tail(messages))

JsonStringify(messages) == <<Punct("[")>> \o JsonElements(messages) \o <<Punct("]")>>

\* JSON.parse of such a text: the values between the brackets, in order.
RECURSIVE JsonParse(_)
JsonParse(text) ==
  IF text = <<>> THEN <<>>
  ELSE (IF Head(text).t = "value" THEN <<Head(text).v>> ELSE <<>>) \o JsonParse(Tail(text))

\* [...messages].sort((a, b) => (a.created || 0) - (b.created || 0)): a stable
\* ascending sort, used for the .txt rendering only.
RECURSIVE InsertByCreated(_, _)
InsertByCreated(m, sorted) ==
  IF sorted = <<>> THEN <<m>>
  ELSE IF m < Head(sorted) THEN <<m>> \o sorted
  ELSE <<Head(sorted)>> \o InsertByCreated(m, Tail(sorted))

RECURSIVE SortByCreated(_)
SortByCreated(messages) ==
  IF messages = <<>> THEN <<>>
  ELSE InsertByCreated(messages[Len(messages)], SortByCreated(SubSeq(messages, 1, Len(messages) - 1)))

\* ------------------------------------------------------------------ periodic sync

IdleSweep ==
  [pc |-> "idle", offset |-> 0, allChats |-> <<>>, newIndex |-> EmptyMap, i |-> 0,
   checked |-> 0, updated |-> 0, errors |-> 0, resp |-> Pending,
   rlog |-> <<>>, listFailed |-> FALSE]

\* The summary periodicSync builds for one listed conversation.
Summary(chat) == [lastMsgId |-> chat.ver]

\* const newIndex = {}; for (const chat of allChats) newIndex[chat.id] = {...}
RECURSIVE BuildIndex(_, _)
BuildIndex(chats, acc) ==
  IF chats = <<>> THEN acc
  ELSE BuildIndex(Tail(chats), Put(acc, Head(chats).id, Summary(Head(chats))))

\* A staleness test that trusts the webhook marker: a conversation whose
\* listed last message a webhook has announced is taken as up to date.
Dirty_UnlessSeen(chat, index) ==
  /\ chat.id \notin DOMAIN index \/ index[chat.id].lastMsgId # chat.ver
  /\ ~(chat.id \in DOMAIN webhookSeen /\ webhookSeen[chat.id].lastMsgId = chat.ver)

\* if (!prev || prev.lastMsgId !== lastMsgId)
Dirty(chat, index) ==
  \/ chat.id \notin DOMAIN index
  \/ index[chat.id].lastMsgId # chat.ver

\* The first position at or after `from` whose conversation needs an update,
\* Len(chats) + 1 when there is none.
RECURSIVE NextDirty(_, _, _)
NextDirty(chats, index, from) ==
  IF from > Len(chats) THEN Len(chats) + 1
  ELSE IF Dirty(chats[from], index) THEN from
  ELSE NextDirty(chats, index, from + 1)

\* A tail of periodicSync that records the status and leaves the flag set.
End_FlagKept(s, loc, index, aborted) ==
  /\ chatIndex' = index
  /\ syncState' = [lastSync |-> TRUE, chatsChecked |-> loc.checked,
                   chatsUpdated |-> loc.updated, errors |-> loc.errors,
                   isRunning |-> TRUE]
  /\ sweep' = [sweep EXCEPT ![s] = IdleSweep]
  /\ last' = [allChats |-> loc.allChats, rlog |-> loc.rlog,
              aborted |-> aborted, listFailed |-> loc.listFailed]

\* The tail of periodicSync after the try block: the sweep status it records.
\* `index` is the value chatIndex has there. The files written on the way
\* (index.json, sync-status.json, webhook-seen.json) are never read back
\* while the server runs and are left out.
End(s, loc, index, aborted) ==
  /\ chatIndex' = index
  /\ syncState' = [lastSync |-> TRUE, chatsChecked |-> loc.checked,
                   chatsUpdated |-> loc.updated, errors |-> loc.errors,
                   isRunning |-> FALSE]
  /\ sweep' = [sweep EXCEPT ![s] = IdleSweep]
  /\ last' = [allChats |-> loc.allChats, rlog |-> loc.rlog,
              aborted |-> aborted, listFailed |-> loc.listFailed]

\* A catch block that installs whatever index the sweep had built.
Abort_IndexReplaced(s, loc) ==
  End(s, [loc EXCEPT !.errors = loc.errors + 1], loc.newIndex, TRUE)

\* catch (err) { errors++ }: chatIndex keeps its value.
Abort(s, loc) ==
  End(s, [loc EXCEPT !.errors = loc.errors + 1], chatIndex, TRUE)

\* The new summaries merged into the old index instead of replacing it.
ReplaceIndex_Merge(old, new) ==
  [c \in (DOMAIN old) \cup (DOMAIN new) |-> IF c \in DOMAIN new THEN new[c] ELSE old[c]]

\* chatIndex = newIndex
ReplaceIndex(old, new) == new

\* The loop `for (const chat of allChats)` from position `from` up to its next
\* await: the refresh of the next conversation that needs one, or the end of
\* the sweep (chatIndex = newIndex; saveIndex()).
Continue(s, loc, from) ==
  LET j == NextDirty(loc.allChats, chatIndex, from)
      n == Len(loc.allChats)
  IN IF j <= n
     THEN /\ sweep' = [sweep EXCEPT ![s] =
                 [loc EXCEPT !.pc = "refreshing", !.i = j, !.resp = Pending,
                             !.checked = loc.checked + ((j + 1) - from)]]
          /\ UNCHANGED <<chatIndex, syncState, last>>
     ELSE End(s, [loc EXCEPT !.checked = loc.checked + ((n + 1) - from)],
              ReplaceIndex(chatIndex, loc.newIndex), FALSE)

\* `const lastMsg = chat.last_message || {}` in the loop that builds newIndex
\* throws a TypeError on an entry that is null.
Throws(chats) == BadEntry \in Range(chats)

\* The code from the end of the pagination loop up to the next await: the
\* loop that builds newIndex, which may throw into the catch, then the
\* refresh loop.
AfterListing(s, loc) ==
  IF Throws(loc.allChats) THEN Abort(s, loc) ELSE Continue(s, loc, 1)

\* The guard left out: every invocation starts a sweep.
AlreadyRunning_Never == FALSE

\* if (syncState.isRunning) return;
AlreadyRunning == syncState.isRunning

\* The least slot that holds no execution.
FreeSlot == CHOOSE s \in Slots : sweep[s].pc = "idle" /\ \A t \in Slots : t < s => sweep[t].pc # "idle"

\* A rejected invocation that schedules itself again.
Rejected_Requeue(queued) ==
  /\ immediates' = queued + 1
  /\ UNCHANGED <<chatIndex, syncState, sweep, last>>

\* The early return of periodicSync: nothing is touched, nothing is scheduled.
\* `queued` is the number of setImmediate callbacks that stay queued.
Rejected(queued) ==
  /\ immediates' = queued
  /\ UNCHANGED <<chatIndex, syncState, sweep, last>>

\* periodicSync() up to its first await (the first listing request).
periodicSync(by, queued) ==
  IF AlreadyRunning
  THEN /\ lastCall' = [by |-> by, outcome |-> "rejected", value |-> "undefined"]
       /\ Rejected(queued)
  ELSE /\ \E s \in Slots : sweep[s].pc = "idle"
       /\ lastCall' = [by |-> by, outcome |-> "started", value |-> "undefined"]
       /\ syncState' = [syncState EXCEPT !.isRunning = TRUE]
       /\ sweep' = [sweep EXCEPT ![FreeSlot] = [IdleSweep EXCEPT !.pc = "listing"]]
       /\ immediates' = queued
       /\ UNCHANGED <<chatIndex, last>>

\* setTimeout(() => periodicSync(), 3000)
StartupTimer ==
  /\ startupPending
  /\ startupPending' = FALSE
  /\ periodicSync("startup", immediates)
  /\ UNCHANGED <<remote, cache, webhookSeen, tasks, hook, scn, tokenOk, probe>>

\* setInterval(() => periodicSync(), SYNC_INTERVAL_MS): first due long after
\* the startup timer.
IntervalTimer ==
  /\ ~startupPending
  /\ periodicSync("interval", immediates)
  /\ UNCHANGED <<remote, cache, webhookSeen, tasks, hook, startupPending, scn, tokenOk, probe>>

\* POST /sync: the reply is sent, then the sweep is scheduled with setImmediate.
PostSync(authorized) ==
  /\ scn.sync
  /\ IF authorized
     THEN /\ immediates < MaxImmediates
          /\ immediates' = immediates + 1
     ELSE UNCHANGED immediates
  /\ UNCHANGED <<remote, chatIndex, cache, webhookSeen, syncState, sweep, tasks, hook,
                 startupPending, lastCall, last, scn, tokenOk, probe>>

\* The setImmediate callback of POST /sync.
Immediate ==
  /\ immediates > 0
  /\ periodicSync("sync", immediates - 1)
  /\ UNCHANGED <<remote, cache, webhookSeen, tasks, hook, startupPending, scn, tokenOk, probe>>

\* A pagination loop without its bound: only a short page ends it.
LastPage_Unbounded(n, next) == n < PageSize

\* After a page of n conversations the loop ends when the page was short
\* (`if (data.chats.length < 100) break`) or the next offset is beyond the
\* last one (`offset <= 1000; offset += 100`).
LastPage(n, next) == n < PageSize \/ next > (MaxPages - 1) * PageSize

\* The answer to the listing request at sweep[s].offset arrives.
ListResponse(s) ==
  /\ sweep[s].pc = "listing"
  /\ \E r \in avitoApi(ListAnswers(sweep[s].offset)) :
       LET loc == sweep[s]
           all == loc.allChats \o r.chats
           built == [loc EXCEPT !.allChats = all, !.newIndex = BuildIndex(all, EmptyMap)]
           next == loc.offset + PageSize
       IN CASE r.kind = "notalist" ->
                 \* data.chats.length is not 0, allChats.push(...data.chats) throws
                 Abort(s, loc)
            [] r.kind \in {"null", "nochats"} \/ r.chats = <<>> ->
                 \* break
                 AfterListing(s, [loc EXCEPT !.newIndex = BuildIndex(loc.allChats, EmptyMap),
                                             !.listFailed = (r.kind = "null")])
            [] OTHER ->
                 IF LastPage(Len(r.chats), next)
                 THEN AfterListing(s, built)
                 ELSE /\ sweep' = [sweep EXCEPT ![s] =
                             [loc EXCEPT !.allChats = all, !.offset = next]]
                      /\ UNCHANGED <<chatIndex, syncState, last>>
  /\ UNCHANGED <<remote, cache, webhookSeen, tasks, hook, immediates, startupPending,
                 lastCall, scn, tokenOk, probe>>

\* The remote answers the messages request of the sweep's updateChatCache.
RefreshAnswer(s) ==
  /\ sweep[s].pc = "refreshing"
  /\ sweep[s].resp = Pending
  /\ \E r \in avitoApi(MessageAnswers(sweep[s].allChats[sweep[s].i].id)) :
       sweep' = [sweep EXCEPT ![s].resp = r]
  /\ UNCHANGED <<remote, chatIndex, cache, webhookSeen, syncState, tasks, hook,
                 immediates, startupPending, lastCall, last, scn, tokenOk, probe>>

\* A failed refresh that is not counted.
Counted_ErrorsDropped(loc, ok) ==
  [loc EXCEPT !.updated = IF ok THEN loc.updated + 1 ELSE loc.updated]

\* if (ok) updated++; else errors++;
Counted(loc, ok) ==
  [loc EXCEPT !.updated = IF ok THEN loc.updated + 1 ELSE loc.updated,
              !.errors = IF ok THEN loc.errors ELSE loc.errors + 1]

\* updateChatCache of the sweep completes; after sleep(200) the loop goes on.
RefreshDone(s) ==
  /\ sweep[s].pc = "refreshing"
  /\ sweep[s].resp # Pending
  /\ LET loc == sweep[s]
         id == loc.allChats[loc.i].id
         ok == UpdateOk(loc.resp)
         counted == [Counted(loc, ok) EXCEPT
                       !.rlog = Append(loc.rlog, [pos |-> loc.i, id |-> id, ok |-> ok])]
     IN /\ cache' = CacheAfter(cache, id, loc.resp)
        /\ Continue(s, counted, loc.i + 1)
  /\ UNCHANGED <<remote, webhookSeen, tasks, hook, immediates, startupPending,
                 lastCall, scn, tokenOk, probe>>

\* ------------------------------------------------------------------ webhook

HookConvs == {"c1"}             \* the conversation ids webhooks carry
HookMsgIds == {1}               \* the message ids webhooks carry

NoBody == [kind |-> "none", chatId |-> "", msgId |-> 0]

HookBodies ==
  {[kind |-> "badjson", chatId |-> "", msgId |-> 0],
   [kind |-> "nochat", chatId |-> "", msgId |-> 0]}
  \cup {[kind |-> "chat", chatId |-> c, msgId |-> m] : c \in HookConvs, m \in HookMsgIds}

\* A handler that records the marker before it replies.
WebhookAck_MarkFirst(body) ==
  /\ scn.hooks
  /\ hook.pc = "idle"
  /\ BagCardinality(tasks) < MaxTasks
  /\ hook' = [pc |-> "acked", body |-> body]
  /\ webhookSeen' = IF body.kind = "chat"
                    THEN Put(webhookSeen, body.chatId, [lastMsgId |-> body.msgId])
                    ELSE webhookSeen
  /\ UNCHANGED <<remote, chatIndex, cache, syncState, sweep, tasks,
                 immediates, startupPending, lastCall, last, scn, tokenOk, probe>>

\* POST /webhook: after the body is read, sendJson(res, 200, {ok: true}).
WebhookAck(body) ==
  /\ scn.hooks
  /\ hook.pc = "idle"
  /\ BagCardinality(tasks) < MaxTasks
  /\ hook' = [pc |-> "acked", body |-> body]
  /\ UNCHANGED <<remote, chatIndex, cache, webhookSeen, syncState, sweep, tasks,
                 immediates, startupPending, lastCall, last, scn, tokenOk, probe>>

\* A handler that leaves the refresh to the sweep while one is running.
HookStarts_UnlessSweeping(body) == body.kind = "chat" /\ ~syncState.isRunning

\* if (chatId): the payload carries a conversation id. Nothing else is tested,
\* syncState.isRunning in particular is not.
HookStarts(body) == body.kind = "chat"

\* POST /webhook: JSON.parse(body), the webhookSeen marker, updateChatCache(chatId)
\* started and not awaited.
WebhookProcess ==
  /\ hook.pc = "acked"
  /\ hook' = [pc |-> "idle", body |-> NoBody]
  /\ IF HookStarts(hook.body)
     THEN /\ webhookSeen' = Put(webhookSeen, hook.body.chatId, [lastMsgId |-> hook.body.msgId])
          /\ tasks' = tasks (+) SetToBag({[id |-> hook.body.chatId, resp |-> Pending]})
     ELSE UNCHANGED <<webhookSeen, tasks>>
  /\ UNCHANGED <<remote, chatIndex, cache, syncState, sweep, immediates, startupPending,
                 lastCall, last, scn, tokenOk, probe>>

\* The remote answers the messages request of a webhook-started updateChatCache.
TaskAnswer(t) ==
  /\ BagIn(t, tasks)
  /\ t.resp = Pending
  /\ \E r \in avitoApi(MessageAnswers(t.id)) :
       tasks' = (tasks (-) SetToBag({t})) (+) SetToBag({[id |-> t.id, resp |-> r]})
  /\ UNCHANGED <<remote, chatIndex, cache, webhookSeen, syncState, sweep, hook,
                 immediates, startupPending, lastCall, last, scn, tokenOk, probe>>

\* A webhook-started updateChatCache completes; its result is dropped.
TaskDone(t) ==
  /\ BagIn(t, tasks)
  /\ t.resp # Pending
  /\ cache' = CacheAfter(cache, t.id, t.resp)
  /\ tasks' = tasks (-) SetToBag({t})
  /\ UNCHANGED <<remote, chatIndex, webhookSeen, syncState, sweep, hook,
                 immediates, startupPending, lastCall, last, scn, tokenOk, probe>>

\* ------------------------------------------------------------------ remote events

\* A conversation without messages appears on the platform.
RemoteNewChat(c) ==
  /\ c \in scn.convs
  /\ c \notin RemoteIds
  /\ remote' = <<Chat(c, 0)>> \o remote
  /\ UNCHANGED <<chatIndex, cache, webhookSeen, syncState, sweep, tasks, hook,
                 immediates, startupPending, lastCall, last, scn, tokenOk, probe>>

\* A message arrives in a conversation, which moves to the head of the listing.
RemoteNewMessage(c) ==
  /\ c \in scn.convs
  /\ IF c \in RemoteIds
     THEN /\ RemoteVer(c) < scn.msgs
          /\ remote' = <<Chat(c, RemoteVer(c) + 1)>> \o Without(remote, c)
     ELSE remote' = <<Chat(c, 1)>> \o remote
  /\ UNCHANGED <<chatIndex, cache, webhookSeen, syncState, sweep, tasks, hook,
                 immediates, startupPending, lastCall, last, scn, tokenOk, probe>>

\* The token endpoint starts to answer non-200 and no cached token is valid
\* any more (the credentials were revoked, the token expired).
TokenRefused ==
  /\ scn.revoke
  /\ tokenOk
  /\ tokenOk' = FALSE
  /\ UNCHANGED <<remote, chatIndex, cache, webhookSeen, syncState, sweep, tasks, hook,
                 immediates, startupPending, lastCall, last, scn, probe>>

\* ------------------------------------------------------------------ specification

\* The runs explored. The program is the same in both; they differ in what its
\* environment does: which conversations exist and how many messages they
\* receive, whether webhooks arrive, whether POST /sync is called.
\*   listing: several conversations, so that a sweep pages, meets the same
\*            conversation twice and refreshes more than one conversation;
\*   events:  one conversation with a longer history, webhooks and POST /sync
\*            racing with the timer-driven sweeps;
\*   token:   one conversation, webhooks, and a token endpoint that starts to
\*            refuse at some point of the run.
Scenarios ==
  {[name |-> "listing", convs |-> Convs, msgs |-> MaxMsg - 1, hooks |-> FALSE,
    sync |-> FALSE, revoke |-> FALSE],
   [name |-> "events", convs |-> {"c1"}, msgs |-> MaxMsg, hooks |-> TRUE,
    sync |-> TRUE, revoke |-> FALSE],
   [name |-> "token", convs |-> {"c1"}, msgs |-> MaxMsg - 1, hooks |-> TRUE,
    sync |-> FALSE, revoke |-> TRUE]}

\* No function is applied on its own.
NoProbe == [op |-> "none"]

\* The server after the listen callback: loadIndex(), loadWebhookSeen(), both
\* timers armed. Either a first start, or a restart over the files of a run
\* that had cached c1.
Init ==
  /\ scn \in Scenarios
  /\ \/ /\ remote = <<>>
        /\ chatIndex = EmptyMap
        /\ cache = [c \in Convs |-> <<>>]
     \/ /\ scn.name # "listing"
        /\ remote = <<Chat("c1", 1)>>
        /\ chatIndex = Put(EmptyMap, "c1", Summary(Chat("c1", 1)))
        /\ cache = [c \in Convs |-> IF c = "c1" THEN MessagesOf(1) ELSE <<>>]
  /\ webhookSeen = EmptyMap
  /\ syncState = [lastSync |-> FALSE, chatsChecked |-> 0, chatsUpdated |-> 0,
                  errors |-> 0, isRunning |-> FALSE]
  /\ sweep = [s \in Slots |-> IdleSweep]
  /\ tasks = EmptyBag
  /\ hook = [pc |-> "idle", body |-> NoBody]
  /\ immediates = 0
  /\ startupPending = TRUE
  /\ lastCall = [by |-> "none", outcome |-> "none", value |-> "undefined"]
  /\ last = [allChats |-> <<>>, rlog |-> <<>>, aborted |-> FALSE,
             listFailed |-> FALSE]
  /\ tokenOk = TRUE
  /\ probe = NoProbe

Next ==
  \/ StartupTimer
  \/ IntervalTimer
  \/ \E a \in BOOLEAN : PostSync(a)
  \/ Immediate
  \/ \E s \in Slots : ListResponse(s)
  \/ \E s \in Slots : RefreshAnswer(s)
  \/ \E s \in Slots : RefreshDone(s)
  \/ \E b \in HookBodies : WebhookAck(b)
  \/ WebhookProcess
  \/ \E t \in BagToSet(tasks) : TaskAnswer(t)
  \/ \E t \in BagToSet(tasks) : TaskDone(t)
  \/ \E c \in Convs : RemoteNewChat(c)
  \/ \E c \in Convs : RemoteNewMessage(c)
  \/ TokenRefused

Spec == Init /\ [][Next]_vars

\* ------------------------------------------------------------------ pagination

\* The startup sweep against an account with more conversations than a sweep
\* lists: one more than MaxPages full pages, none of which changes during the
\* run.
MaxStale == 3                   \* conversations the loaded index may lack

LongListing == [k \in 1..(MaxPages * PageSize + 1) |-> Chat(ToString(k), 1)]

Settled == [name |-> "settled", convs |-> {}, msgs |-> 0, hooks |-> FALSE,
            sync |-> FALSE, revoke |-> FALSE]

\* The server restarts over the index and the cache of a run that had seen
\* all but the last few conversations a sweep can list.
PagingInit ==
  /\ scn = Settled
  /\ remote = LongListing
  /\ \E stale \in 0..MaxStale :
        LET known == SubSeq(LongListing, 1, MaxPages * PageSize - stale)
        IN /\ chatIndex = BuildIndex(known, EmptyMap)
           /\ cache = [c \in Ids(LongListing) |->
                         IF c \in Ids(known) THEN MessagesOf(1) ELSE <<>>]
  /\ webhookSeen = EmptyMap
  /\ syncState = [lastSync |-> FALSE, chatsChecked |-> 0, chatsUpdated |-> 0,
                  errors |-> 0, isRunning |-> FALSE]
  /\ sweep = [s \in Slots |-> IdleSweep]
  /\ tasks = EmptyBag
  /\ hook = [pc |-> "idle", body |-> NoBody]
  /\ immediates = 0
  /\ startupPending = TRUE
  /\ lastCall = [by |-> "none", outcome |-> "none", value |-> "undefined"]
  /\ last = [allChats |-> <<>>, rlog |-> <<>>, aborted |-> FALSE,
             listFailed |-> FALSE]
  /\ tokenOk = TRUE
  /\ probe = NoProbe

PagingNext ==
  \/ StartupTimer
  \/ \E s \in Slots : ListResponse(s)
  \/ \E s \in Slots : RefreshAnswer(s)
  \/ \E s \in Slots : RefreshDone(s)

PagingSpec == PagingInit /\ [][PagingNext]_vars

\* ------------------------------------------------------------------ functions

\* The functions of the chat cache applied to inputs of their own, with the
\* server at rest: safeName to a pair of conversation ids, and
\* saveChatMessages followed by the GET /api/chats/<id>/messages handler to a
\* message list.
AtRest == [name |-> "rest", convs |-> {}, msgs |-> 0, hooks |-> FALSE,
           sync |-> FALSE, revoke |-> FALSE]

Probes ==
  {[op |-> "safeName", pc |-> "input", a |-> x, b |-> y, na |-> <<>>, nb |-> <<>>] :
      x \in IdStrings, y \in IdStrings}
  \cup {[op |-> "cache", pc |-> "input", messages |-> m, json |-> <<>>, txt |-> <<>>,
         status |-> 0, reply |-> <<>>] : m \in MessageLists}

ProbeInit ==
  /\ probe \in Probes
  /\ scn = AtRest
  /\ remote = <<>>
  /\ chatIndex = EmptyMap
  /\ cache = [c \in Convs |-> <<>>]
  /\ webhookSeen = EmptyMap
  /\ syncState = [lastSync |-> FALSE, chatsChecked |-> 0, chatsUpdated |-> 0,
                  errors |-> 0, isRunning |-> FALSE]
  /\ sweep = [s \in Slots |-> IdleSweep]
  /\ tasks = EmptyBag
  /\ hook = [pc |-> "idle", body |-> NoBody]
  /\ immediates = 0
  /\ startupPending = TRUE
  /\ lastCall = [by |-> "none", outcome |-> "none", value |-> "undefined"]
  /\ last = [allChats |-> <<>>, rlog |-> <<>>, aborted |-> FALSE,
             listFailed |-> FALSE]
  /\ tokenOk = TRUE

\* safeName(a) and safeName(b)
Encode ==
  /\ probe.op = "safeName" /\ probe.pc = "input"
  /\ probe' = [probe EXCEPT !.pc = "encoded", !.na = safeName(probe.a),
                            !.nb = safeName(probe.b)]
  /\ UNCHANGED <<remote, chatIndex, cache, webhookSeen, syncState, sweep, tasks, hook,
                 immediates, startupPending, lastCall, last, scn, tokenOk>>

\* saveChatMessages(chatId, messages): nothing for an empty list; otherwise
\* <safe>.json gets the list as received and chat_<safe>.txt the sorted one.
Save ==
  /\ probe.op = "cache" /\ probe.pc = "input"
  /\ LET written == saveChatMessages([c \in {"c1"} |-> <<>>], "c1", probe.messages)["c1"]
     IN probe' = [probe EXCEPT
                    !.pc = "saved",
                    !.json = IF written = <<>> THEN <<>> ELSE JsonStringify(written),
                    !.txt = IF written = <<>> THEN <<>> ELSE SortByCreated(written)]
  /\ UNCHANGED <<remote, chatIndex, cache, webhookSeen, syncState, sweep, tasks, hook,
                 immediates, startupPending, lastCall, last, scn, tokenOk>>

\* GET /api/chats/<id>/messages: 404 without the file, else the parsed file.
Read ==
  /\ probe.op = "cache" /\ probe.pc = "saved"
  /\ probe' = IF probe.json = <<>>
              THEN [probe EXCEPT !.pc = "read", !.status = 404]
              ELSE [probe EXCEPT !.pc = "read", !.status = 200,
                                 !.reply = JsonParse(probe.json)]
  /\ UNCHANGED <<remote, chatIndex, cache, webhookSeen, syncState, sweep, tasks, hook,
                 immediates, startupPending, lastCall, last, scn, tokenOk>>

ProbeNext == Encode \/ Save \/ Read

ProbeSpec == ProbeInit /\ [][ProbeNext]_vars

\* ------------------------------------------------------------------ progress

\* Every answer the messages request may get in any state.
AllMessageAnswers ==
  {[kind |-> "null", messages |-> <<>>], [kind |-> "nomessages", messages |-> <<>>]}
  \cup {[kind |-> "ok", messages |-> MessagesOf(v)] : v \in 0..MaxMsg}

\* Every webhook-started updateChatCache call there may be.
TaskValues == {[id |-> c, resp |-> r] : c \in HookConvs, r \in AllMessageAnswers \cup {Pending}}

\* What the runtime and the transport guarantee: a request that was sent is
\* answered or fails (httpsRequest resolves on 'end', rejects on 'error' and on
\* its 30 s timeout), and a continuation whose promise has settled is run by
\* the event loop. Nothing is assumed of the timers, of POST /sync, of the
\* webhooks' arrival or of the remote's conversations.
Fairness ==
  /\ \A s \in Slots : WF_vars(ListResponse(s))
  /\ \A s \in Slots : WF_vars(RefreshAnswer(s))
  /\ \A s \in Slots : WF_vars(RefreshDone(s))
  /\ WF_vars(WebhookProcess)
  /\ \A t \in TaskValues : WF_vars(TaskAnswer(t))
  /\ \A t \in TaskValues : WF_vars(TaskDone(t))

\* The runs in which the timers and the webhooks drive the server (the
\* scenarios without POST /sync).
FairInit == Init /\ ~scn.sync

FairNext ==
  \/ StartupTimer
  \/ IntervalTimer
  \/ \E s \in Slots : ListResponse(s)
  \/ \E s \in Slots : RefreshAnswer(s)
  \/ \E s \in Slots : RefreshDone(s)
  \/ \E b \in HookBodies : WebhookAck(b)
  \/ WebhookProcess
  \/ \E t \in BagToSet(tasks) : TaskAnswer(t)
  \/ \E t \in BagToSet(tasks) : TaskDone(t)
  \/ \E c \in Convs : RemoteNewChat(c)
  \/ \E c \in Convs : RemoteNewMessage(c)
  \/ TokenRefused

FairSpec == FairInit /\ [][FairNext]_vars /\ Fairness

\* ------------------------------------------------------------------ properties

\* The executions of periodicSync between their start and their end.
Running == {s \in Slots : sweep[s].pc # "idle"}

\* The remote requests that are awaiting their answer.
InFlight ==
  {[call |-> "chats", offset |-> sweep[s].offset, id |-> ""] :
      s \in {t \in Slots : sweep[t].pc = "listing"}}
  \cup {[call |-> "messages", offset |-> 0, id |-> sweep[s].allChats[sweep[s].i].id] :
      s \in {t \in Slots : sweep[t].pc = "refreshing" /\ sweep[t].resp = Pending}}
  \cup {[call |-> "messages", offset |-> 0, id |-> t.id] :
      t \in {u \in BagToSet(tasks) : u.resp = Pending}}

\* A step in which periodicSync is invoked while a sweep is running.
RejectedStep ==
  /\ syncState.isRunning
  /\ lastCall'.outcome = "rejected"
  /\ \/ lastCall' # lastCall
     \/ immediates' < immediates
     \/ startupPending' # startupPending

\* A step in which an execution of periodicSync starts.
StartStep == \E s \in Slots : sweep[s].pc = "idle" /\ sweep'[s].pc # "idle"

\* A step in which an execution of periodicSync ends.
EndStep == \E s \in Slots : sweep[s].pc # "idle" /\ sweep'[s].pc = "idle"

\* C1: single-flight. In every reachable state at most one execution of
\* periodicSync is between its start and its end, whatever the interleaving of
\* the startup timer, the interval timer and the POST /sync triggers.
C1_SingleFlight == Cardinality(Running) <= 1

\* C1 witness: a sweep is in flight and an invocation has just been rejected.
C1_Witness ==
  /\ Cardinality(Running) = 1
  /\ syncState.isRunning
  /\ lastCall.outcome = "rejected"

\* What a rejected invocation leaves alone: no request is issued, the index,
\* the cache, the sweep status and the running sweep keep their values, and
\* no further invocation is scheduled.
RejectedFrame ==
  /\ InFlight' = InFlight
  /\ UNCHANGED <<chatIndex, cache, syncState, sweep, tasks, last, webhookSeen>>
  /\ immediates' <= immediates

ListedVers(chats, c) == {ch.ver : ch \in {x \in Range(chats) : x.id = c}}

\* The number of refresh calls a sweep's log holds for conversation c.
Calls(log, c) == Cardinality({k \in DOMAIN log : log[k].id = c})

\* The newest message of a cached conversation.
Newest(messages) == CHOOSE m \in Range(messages) : \A x \in Range(messages) : x <= m

\* C3 as stated: when a sweep completes, a listed conversation whose index
\* entry (left by the previous sweep) has the listed last-message id got no
\* refresh call in this sweep, and a listed conversation with no entry or a
\* different id got exactly one, however often the listing returned it.
C3_Original ==
  [][EndStep /\ ~last'.aborted =>
       \A c \in Ids(last'.allChats) :
         LET vers == ListedVers(last'.allChats, c)
         IN /\ (c \in DOMAIN chatIndex /\ vers = {chatIndex[c].lastMsgId})
                  => Calls(last'.rlog, c) = 0
            /\ (c \notin DOMAIN chatIndex \/ chatIndex[c].lastMsgId \notin vers)
                  => Calls(last'.rlog, c) = 1]_vars

\* C4 as stated: when a sweep completes, every conversation whose refresh
\* failed in the sweep before it, and which the listing reports again with the
\* same last-message id, got a refresh call in this sweep.
C4_Original ==
  [][EndStep /\ ~last'.aborted =>
       \A k \in DOMAIN last.rlog :
         (~last.rlog[k].ok /\ last.allChats[last.rlog[k].pos] \in Range(last'.allChats))
            => Calls(last'.rlog, last.rlog[k].id) >= 1]_vars

\* C5 as stated: whenever no sweep is running, every conversation of the index
\* with a non-empty last-message id has a cached conversation at least as
\* recent as its index entry.
C5_Original ==
  ~syncState.isRunning =>
     \A c \in DOMAIN chatIndex :
        chatIndex[c].lastMsgId # 0 =>
           /\ cache[c] # <<>>
           /\ Newest(cache[c]) >= chatIndex[c].lastMsgId

\* The refresh calls of a sweep's log that returned failure.
Failed(log) == Cardinality({k \in DOMAIN log : ~log[k].ok})

\* Position q of the listing of the sweep that ends in this step holds a
\* conversation that the index of before the sweep has not, or has with
\* another last-message id.
DirtyAt(q) ==
  LET ch == last'.allChats[q]
  IN ch.id \notin DOMAIN chatIndex \/ chatIndex[ch.id].lastMsgId # ch.ver

\* The positions of the listing for which the ending sweep called the refresh.
Refreshed == {last'.rlog[k].pos : k \in DOMAIN last'.rlog}

\* C6 as stated: at the end of a sweep every dirty conversation of the listing
\* has been refreshed, whatever refresh failed before it, and the reported
\* error count is the number of refresh calls that returned failure.
C6_Original ==
  [][EndStep =>
       /\ syncState'.errors = Failed(last'.rlog)
       /\ ~last'.aborted => Refreshed = {q \in DOMAIN last'.allChats : DirtyAt(q)}]_vars

\* C6 amended: at the end of a sweep every dirty conversation of the listing
\* has been refreshed, whatever refresh failed before it, and the reported
\* error count is the number of refresh calls that returned failure, plus one
\* when the sweep was aborted by an exception.
C6_FailuresIsolated ==
  [][EndStep =>
       /\ syncState'.errors = Failed(last'.rlog) + (IF last'.aborted THEN 1 ELSE 0)
       /\ ~last'.aborted => Refreshed = {q \in DOMAIN last'.allChats : DirtyAt(q)}]_vars

\* C6 witness: a completed sweep in which the refresh of one conversation
\* failed and the refresh of a later one succeeded, with one error reported.
C6_Witness ==
  /\ syncState.lastSync /\ ~syncState.isRunning
  /\ syncState.errors = 1
  /\ \E j, k \in DOMAIN last.rlog :
        /\ j < k
        /\ ~last.rlog[j].ok /\ last.rlog[k].ok
        /\ last.rlog[j].id # last.rlog[k].id

\* The log of slot s's sweep after this step.
LogAfter(s) == IF sweep'[s].pc = "idle" THEN last'.rlog ELSE sweep'[s].rlog

\* C7 as stated: updateChatCache returns false and leaves the cache as it was
\* when the answer is missing, malformed or an empty message list, and returns
\* true only when it has written the fetched list to the cache.
C7_Original ==
  [][\A s \in Slots :
       (/\ sweep[s].pc = "refreshing"
        /\ sweep[s].resp # Pending
        /\ Len(LogAfter(s)) = Len(sweep[s].rlog) + 1)
       => LET r == sweep[s].resp
              id == sweep[s].allChats[sweep[s].i].id
              ok == LogAfter(s)[Len(LogAfter(s))].ok
          IN /\ (r.kind # "ok" \/ r.messages = <<>>) => (~ok /\ cache' = cache)
             /\ ok => (r.messages # <<>> /\ cache'[id] = r.messages)]_vars

\* C8 as stated: a completed sweep in which a listing page failed to fetch
\* reports at least one error.
C8_Original ==
  (syncState.lastSync /\ last.listFailed) => syncState.errors >= 1

\* The summary map of a listing: each listed conversation with the
\* last-message id of its last occurrence.
FreshIndex(chats) ==
  [c \in Ids(chats) |->
     LET k == CHOOSE j \in DOMAIN chats :
                 chats[j].id = c /\ \A m \in DOMAIN chats : chats[m].id = c => m <= j
     IN [lastMsgId |-> chats[k].ver]]

\* C9: the index is replaced wholesale. It changes only in the step that ends
\* a sweep that was not aborted, after every dirty conversation of that sweep
\* has been refreshed, and its new value is exactly the summary map of that
\* sweep's listing; every such step replaces it. No other step (webhook,
\* refresh, trigger) changes it.
C9_WholesaleReplace ==
  [][/\ chatIndex' # chatIndex =>
          /\ EndStep /\ ~last'.aborted
          /\ \A q \in DOMAIN last'.allChats : DirtyAt(q) => q \in Refreshed
     /\ (EndStep /\ ~last'.aborted) => chatIndex' = FreshIndex(last'.allChats)
     /\ (EndStep /\ last'.aborted) => chatIndex' = chatIndex]_vars

\* C9 witness: a sweep that listed only part of the indexed conversations has
\* ended, and the index holds that listing alone.
C9_Witness ==
  /\ syncState.lastSync /\ ~last.aborted
  /\ last.rlog # <<>>
  /\ chatIndex = FreshIndex(last.allChats)
  /\ \E c \in Convs : cache[c] # <<>> /\ c \notin DOMAIN chatIndex

\* A webhook-started refresh that awaits its answer.
Started(c) == [id |-> c, resp |-> Pending]

\* C10: the webhook handler replies before it processes. The step that takes
\* up a request sends the 200 and touches nothing else, for every body; the
\* marker and the refresh come only from a request already answered; and the
\* handler ends while the refresh it started still awaits its answer.
C10_AckFirst ==
  [][/\ (hook.pc = "idle" /\ hook'.pc # "idle") =>
          /\ hook'.pc = "acked"
          /\ UNCHANGED <<webhookSeen, tasks, cache, chatIndex>>
     /\ (\/ webhookSeen' # webhookSeen
         \/ \E c \in Convs : CopiesIn(Started(c), tasks') > CopiesIn(Started(c), tasks))
          => hook.pc = "acked"
     /\ (hook.pc = "acked" /\ hook'.pc = "idle" /\ hook.body.kind = "chat") =>
          /\ CopiesIn(Started(hook.body.chatId), tasks')
               = CopiesIn(Started(hook.body.chatId), tasks) + 1
          /\ cache' = cache]_vars

\* C10 witness: the handler has replied and ended, the marker is recorded and
\* the refresh it started still awaits the remote's answer.
C10_Witness ==
  /\ hook.pc = "idle"
  /\ \E c \in DOMAIN webhookSeen : BagIn(Started(c), tasks)

\* A webhook-started refresh of c whose request was answered with the messages
\* up to v.
Fetched(c, v) == [id |-> c, resp |-> [kind |-> "ok", messages |-> MessagesOf(v)]]

\* C11: a webhook notification that carries a conversation id starts one
\* refresh of that conversation in the step that processes it, whether a sweep
\* is running or not; and once that refresh has fetched a message list, the
\* cache of the conversation eventually holds that list, with no sweep needed
\* (no timer is assumed ever to fire).
C11_WebhookRefresh ==
  /\ [][(hook.pc = "acked" /\ hook'.pc = "idle" /\ hook.body.kind = "chat") =>
         /\ CopiesIn(Started(hook.body.chatId), tasks')
              = CopiesIn(Started(hook.body.chatId), tasks) + 1
         /\ BagCardinality(tasks') = BagCardinality(tasks) + 1
         /\ UNCHANGED <<sweep, syncState, chatIndex>>]_vars
  /\ \A c \in HookConvs : \A v \in 1..MaxMsg :
        BagIn(Fetched(c, v), tasks) ~> (cache[c] = MessagesOf(v))

\* C11 witness: the server started with an empty index and an empty cache, its
\* first sweep is still running and has refreshed nothing, and the cache
\* holds the messages of a conversation a webhook announced: the write of the
\* webhook-started refresh.
C11_Witness ==
  /\ syncState.isRunning /\ ~syncState.lastSync
  /\ chatIndex = EmptyMap
  /\ \A s \in Slots : sweep[s].rlog = <<>>
  /\ \E c \in DOMAIN webhookSeen : cache[c] # <<>> /\ cache[c] = MessagesOf(RemoteVer(c))

\* C12 as stated: safeName is injective. Two different conversation ids over
\* an alphabet with '/', '%', '2' and 'F' never get the same file name.
C12_Original ==
  (probe.op = "safeName" /\ probe.pc = "encoded" /\ probe.a # probe.b)
     => probe.na # probe.nb

\* A message list in ascending order of `created`.
Ascending(messages) ==
  \A j, k \in DOMAIN messages : j < k => messages[j] <= messages[k]

\* C13 as stated: a message list written to the cache and read back is the
\* list that was written, and it is in ascending order of `created`,
\* whatever order the remote delivered it in.
C13_Original ==
  (probe.op = "cache" /\ probe.pc = "read" /\ probe.messages # <<>>)
     => /\ probe.status = 200
        /\ probe.reply = probe.messages
        /\ Ascending(probe.reply)

\* The refresh calls of a sweep's log that returned success.
Succeeded(log) == Cardinality({k \in DOMAIN log : log[k].ok})

\* The conversations of the ending sweep's listing that the index of before
\* the sweep has not, or has with another last-message id than the listed one.
DirtyConvs ==
  {c \in Ids(last'.allChats) :
     c \notin DOMAIN chatIndex
     \/ chatIndex[c].lastMsgId \notin ListedVers(last'.allChats, c)}

\* C14 as stated: the report of a sweep that ran to its end has checked equal
\* to the number of conversations the listing returned, updated equal to the
\* number of refreshes that succeeded, and updated plus the failed refreshes
\* equal to the number of dirty conversations.
C14_Original ==
  [][EndStep /\ ~last'.aborted =>
       /\ syncState'.chatsChecked = Cardinality(Ids(last'.allChats))
       /\ syncState'.chatsUpdated = Succeeded(last'.rlog)
       /\ syncState'.chatsUpdated + Failed(last'.rlog) = Cardinality(DirtyConvs)]_vars

\* A step in which the listing request of slot s is answered.
ListStep(s) == sweep[s].pc = "listing" /\ sweep'[s] # sweep[s]

\* A step in which the messages request of slot s's refresh is answered.
RefreshAnswerStep(s) ==
  sweep[s].pc = "refreshing" /\ sweep[s].resp = Pending /\ sweep'[s].resp # Pending

\* A step in which slot s's refresh, answered with r, returns.
RefreshDoneStep(s) ==
  /\ sweep[s].pc = "refreshing" /\ sweep[s].resp # Pending
  /\ Len(LogAfter(s)) = Len(sweep[s].rlog) + 1

\* A listing with an entry that is no conversation object.
Malformed(chats) == \E q \in DOMAIN chats : chats[q] = BadEntry

\* C15: while token acquisition fails, a listing request comes back as a
\* failure value: the sweep asks for no further page, goes on with the
\* conversations it has and is not aborted by the failure (an abort at this
\* point is the exception raised by a malformed entry of an earlier page); a
\* messages request comes back as
\* a failure value too, in the sweep and in a webhook-started refresh; and a
\* refresh that got the failure value returns false, leaves the cache alone
\* and raises nothing: the sweep counts an error and goes on or ends with its
\* running flag cleared, the webhook-started refresh just ends.
C15_TokenFailureContained ==
  [][/\ ~tokenOk =>
          /\ \A s \in Slots : ListStep(s) =>
                /\ sweep'[s].pc # "listing"
                /\ sweep'[s].pc = "refreshing" =>
                      sweep'[s].allChats = sweep[s].allChats /\ sweep'[s].listFailed
                /\ sweep'[s].pc = "idle" =>
                      /\ last'.allChats = sweep[s].allChats
                      /\ last'.listFailed
                      /\ last'.aborted = Malformed(sweep[s].allChats)
                      /\ ~syncState'.isRunning
          /\ \A s \in Slots : RefreshAnswerStep(s) => sweep'[s].resp.kind = "null"
          /\ \A t \in BagToSet(tasks') :
                (t.resp # Pending /\ CopiesIn(t, tasks') > CopiesIn(t, tasks))
                   => t.resp.kind = "null"
     /\ \A s \in Slots : (RefreshDoneStep(s) /\ sweep[s].resp.kind = "null") =>
          /\ ~LogAfter(s)[Len(LogAfter(s))].ok
          /\ cache' = cache
          /\ sweep'[s].pc = "refreshing" => sweep'[s].errors = sweep[s].errors + 1
          /\ sweep'[s].pc = "idle" =>
                /\ syncState'.errors = sweep[s].errors + 1
                /\ ~last'.aborted /\ ~syncState'.isRunning
     /\ \A t \in BagToSet(tasks) :
          (t.resp.kind = "null" /\ CopiesIn(t, tasks') < CopiesIn(t, tasks)) =>
             UNCHANGED <<cache, chatIndex, syncState, sweep, webhookSeen>>]_vars

\* C15 witness: token acquisition fails; the last sweep got a page, lost the
\* next one and the refresh of the listed conversation, and ended un-aborted
\* with one error and its flag cleared; and the refresh started for a
\* conversation a webhook announced has ended with nothing cached.
C15_Witness ==
  /\ ~tokenOk
  /\ syncState.lastSync /\ ~syncState.isRunning /\ syncState.errors = 1
  /\ last.listFailed /\ ~last.aborted
  /\ last.rlog # <<>> /\ ~last.rlog[1].ok
  /\ tasks = EmptyBag /\ hook.pc = "idle"
  /\ \E c \in DOMAIN webhookSeen : c \in RemoteIds /\ RemoteVer(c) > 0 /\ cache[c] = <<>>

\* The listing an execution of periodicSync has collected after this step.
ListedAfter(s) == IF sweep'[s].pc = "idle" THEN last'.allChats ELSE sweep'[s].allChats

C17_Original ==
  [][\A c \in Convs :
       (cache[c] # <<>> /\ cache'[c] # cache[c])
          => Newest(cache'[c]) >= Newest(cache[c])]_vars

\* The conversations a sweep refreshes, as a function of the index it starts
\* from and of the listing it gets, and of nothing else.
RefreshSet(index, chats) ==
  {chats[q].id : q \in {p \in DOMAIN chats :
                          \/ chats[p].id \notin DOMAIN index
                          \/ index[chats[p].id].lastMsgId # chats[p].ver}}

\* The conversations a sweep's log holds a refresh call for.
RefreshedIds(log) == {log[k].id : k \in DOMAIN log}

\* C18: the webhook marker takes no part in staleness detection. The
\* conversations a sweep refreshes and the index it ends with are functions of
\* the index it started from and of the listing alone, so two runs that agree
\* on these and differ in webhookSeen refresh the same conversations and end
\* with the same index; and a step that records a marker changes neither the
\* index nor any sweep.
C18_MarkerNotConsulted ==
  [][/\ EndStep =>
          /\ RefreshedIds(last'.rlog)
               = IF last'.aborted THEN {} ELSE RefreshSet(chatIndex, last'.allChats)
          /\ chatIndex' = IF last'.aborted THEN chatIndex ELSE FreshIndex(last'.allChats)
     /\ webhookSeen' # webhookSeen => UNCHANGED <<chatIndex, sweep, syncState, last>>]_vars

\* C18 witness: a sweep has ended that refreshed a conversation whose listed
\* last message carries the webhook marker.
C18_Witness ==
  /\ syncState.lastSync /\ ~syncState.isRunning /\ ~last.aborted
  /\ \E k \in DOMAIN last.rlog :
        /\ last.rlog[k].id \in DOMAIN webhookSeen
        /\ webhookSeen[last.rlog[k].id].lastMsgId = last.allChats[last.rlog[k].pos].ver

\* C19: every started sweep finishes. Provided each remote request is
\* answered or fails and each continuation is run, a running sweep leads to
\* no sweep running, whether it ends normally, after failures or by an
\* exception; the step that ends it clears the running flag and records the
\* sweep status; so the flag does not stay set and reject every later
\* trigger.
C19_SweepEnds ==
  /\ [][EndStep => (~syncState'.isRunning /\ syncState'.lastSync /\ Running' = {})]_vars
  /\ (Running # {}) ~> (Running = {})
  /\ syncState.isRunning ~> ~syncState.isRunning

\* C19 witness: after a sweep that ended by an exception, the interval timer
\* has started the next one.
C19_Witness ==
  /\ last.aborted /\ syncState.lastSync
  /\ lastCall.by = "interval" /\ lastCall.outcome = "started"
  /\ syncState.isRunning /\ Running # {}

\* C20: a sweep that ends by an exception was still listing or building its
\* index: it has issued no refresh call and written nothing to the cache; the
\* step leaves the index exactly as it was, reports one error with nothing
\* checked or updated, and clears the running flag.
C20_AbortKeepsIndex ==
  [][\A s \in Slots :
       (sweep[s].pc # "idle" /\ sweep'[s].pc = "idle" /\ last'.aborted) =>
          /\ sweep[s].pc = "listing" /\ sweep[s].rlog = <<>>
          /\ last'.rlog = <<>>
          /\ chatIndex' = chatIndex /\ cache' = cache
          /\ syncState'.errors = 1
          /\ syncState'.chatsChecked = 0 /\ syncState'.chatsUpdated = 0
          /\ ~syncState'.isRunning]_vars

\* C20 witness: a sweep whose listing held a malformed entry next to a
\* conversation the index lacks has been aborted; the index, not empty, still
\* lacks that conversation, and the flag is cleared.
C20_Witness ==
  /\ last.aborted /\ Malformed(last.allChats)
  /\ ~syncState.isRunning /\ syncState.errors = 1
  /\ chatIndex # EmptyMap
  /\ \E q \in DOMAIN last.allChats :
        last.allChats[q] # BadEntry /\ last.allChats[q].id \notin DOMAIN chatIndex
====
